---- MODULE Spec2Model ----
(***************************************************************************)
(* Model of pymarketcap's asynchronous multi-fetch engine:                 *)
(* AsyncPymarketcapScraper._async_multiget with its _producer, its         *)
(* _consumer tasks (one pool on the bounded main queue, one on the         *)
(* dead-letter queue), try_get_itr_len and _base_currency_url              *)
(* (src/pymarketcap/pymasyncore.py).                                       *)
(*                                                                         *)
(* Up to two calls of _async_multiget run on one scraper: everything a     *)
(* call creates (its arguments, its position, its queues, its consumer     *)
(* tasks, its response list) is held per call; the scraper's settings and  *)
(* the transport are shared.                                               *)
(*                                                                         *)
(* asyncio is single-threaded and cooperative: a coroutine runs until it   *)
(* suspends at an await that cannot complete at once.  Every action below  *)
(* is one such uninterrupted stretch of a coroutine.                       *)
(***************************************************************************)
EXTENDS Integers, Sequences, FiniteSets, TLC

\* ------------------------------------------------------------------ bounds
MaxItems == 2          \* longest input iterable
MaxQueueSize == 2      \* largest queue_size given to the constructor
MaxLimit == 2          \* largest connector limit
MaxConsumers == 2      \* largest num_of_consumers argument
CounterCap == 2        \* the history counters saturate here
MaxItemsEach == 1      \* longest input of each of two interleaved calls

\* ---------------------------------------------------------------- constants
ItrLenSentinel == 1000000

\* --------------------------------------------------------------- the inputs
\* Domain items handed to build_url_callback: ticker symbols and coin names.
Symbols == {"BTC", "XXX"}
Names == {"ethereum"}
Items == Symbols \cup Names

\* processer._is_symbol: the capability check that recognises a ticker symbol.
_is_symbol(name) == name \in Symbols

\* self.correspondences: symbol -> slug ("XXX" has no entry).
correspondences == [s \in {"BTC"} |-> "bitcoin"]

LookupError == "LookupError"

\* _base_currency_url: the URL of an item, or the error the dict lookup raises.
_base_currency_url(name) ==
    IF _is_symbol(name)
    THEN IF name \in DOMAIN correspondences
         THEN "https://coinmarketcap.com/currencies/" \o correspondences[name] \o "/"
         ELSE LookupError
    ELSE "https://coinmarketcap.com/currencies/" \o name \o "/"

build_url_callback(item) == _base_currency_url(item)

Urls == {build_url_callback(i) : i \in Items} \ {LookupError}

\* The transport's answer for a URL: the body text of the page.
Body(url) == "body-" \o url

\* The transport's script for a URL: it answers every call, times out on the
\* first call only, times out on every call, or fails every call with an
\* error that is not a timeout (a connection error).
Modes == {"ok", "timeout_first", "timeout_always", "error"}

\* ---------------------------------------------------------------- the state
\* The calls of _async_multiget made on the scraper.
CallIds == {1, 2}

VARIABLES
    itr,               \* per call: the iterable given to _async_multiget
    has_len,           \* per call: whether len(itr) is defined (a list) or not
    num_of_consumers,  \* per call: the argument, None or an integer
    queue_size,        \* self.queue_size
    connector_limit,   \* self.connector_limit
    mode,              \* the transport's script, per URL the calls can ask for
    called,            \* the URLs the transport has been asked for so far
    pc,                \* per call: where the _async_multiget coroutine stands
    idx,               \* per call: the producer's position in itr (from 1)
    items,             \* per Queue object: its items
    unfinished_tasks,  \* per Queue object: Queue._unfinished_tasks
    maxsize,           \* per Queue object: Queue.maxsize
    workers,           \* per call: the local num_of_consumers after line 146
    tasks,             \* per call: the task lists consumers and dlq_consumers
    responses,         \* per list object: the bodies appended to it
    error,             \* per call: the exception that left the call, if any
    hist               \* history: what happened to each input item of a call

vars == <<itr, has_len, num_of_consumers, queue_size, connector_limit, mode,
          called, pc, idx, items, unfinished_tasks, maxsize, workers, tasks,
          responses, error, hist>>

inputs == <<itr, has_len, num_of_consumers, queue_size, connector_limit, mode>>

\* Python's None and an integer argument, as a sequence of length 0 or 1.
None == <<>>
Int1(n) == <<n>>

QueueNames == {"queue", "dlq"}
Pools == {"consumers", "dlq_consumers"}

\* One Queue object for every call, whatever the local it is bound to.
SharedQueueRef(c, name) == <<1, name>>

\* Line 145: the locals queue and dlq of call c are Queue objects made by that
\* call.
QueueRef(c, name) == <<c, name>>

\* One list for every call (kept on the scraper).
SharedListRef(c) == 1

\* Line 145: the local responses of call c is a list made by that call.
ListRef(c) == c

QueueRefs == CallIds \X QueueNames
ListRefs == CallIds

\* A work item on a queue is the URL string; call and id name the call and the
\* position in its itr of the item it was built from (history only: the code
\* does not carry them).
NoWork == [call |-> 0, id |-> 0, url |-> ""]

\* A consumer task: the queues and the list it was started on, its position in
\* the loop ("get": suspended in main_queue.get(); "fetch": suspended in
\* self._get(url); "failed": ended by an exception; "cancelled"), the item it
\* holds and the answer its fetch will get.
NewConsumer(main_queue, dlq, resp) ==
    [main_queue |-> main_queue, dlq |-> dlq, responses |-> resp,
     at |-> "get", work |-> NoWork, res |-> "none"]

Min(a, b) == IF a <= b THEN a ELSE b
Inc(n) == Min(n + 1, CounterCap)

\* range(n) has max(n, 0) elements.
RangeLen(n) == IF n > 0 THEN n ELSE 0

SeqsUpTo(S, n) == UNION {[1..k -> S] : k \in 0..n}

\* A length of 0 for an iterable without len().
TryLenZero(it, sized) == IF sized THEN Len(it) ELSE 0

\* try_get_itr_len: len(itr), or the sentinel when itr has no len().
try_get_itr_len(it, sized) == IF sized THEN Len(it) ELSE ItrLenSentinel

\* Line 146: num_of_consumers or min(self.connector_limit, try_get_itr_len(itr)).
WorkerCount(num, limit, it, sized) ==
    IF num # None /\ num[1] # 0
    THEN num[1]
    ELSE Min(limit, try_get_itr_len(it, sized))

\* Line 149: range(num_of_consumers or self.connector_limit).
MainPoolSize(n, limit) == RangeLen(IF n # 0 THEN n ELSE limit)

\* Line 151: range(num_of_consumers).
DlqPoolSize(n) == RangeLen(n)

\* The transport's answer to the next call for url.
Transport(url) ==
    CASE mode[url] = "ok" -> "ok"
      [] mode[url] = "timeout_first" -> IF url \in called THEN "ok" ELSE "timeout"
      [] mode[url] = "timeout_always" -> "timeout"
      [] mode[url] = "error" -> "error"

\* Queue.full(): a maxsize of 0 or less is an unbounded queue.
Full(q) == maxsize[q] > 0 /\ Len(items[q]) >= maxsize[q]

\* The URLs the producer can enqueue: those of the items before the first one
\* whose URL cannot be built (the error ends the producer there).
Enqueueable(it) ==
    {build_url_callback(it[i]) : i \in {j \in DOMAIN it :
        \A h \in 1..j : build_url_callback(it[h]) # LookupError}}

\* A value for the one call that is made, and another for the call that is not.
OneCall(x, absent) == [c \in CallIds |-> IF c = 1 THEN x ELSE absent]

\* What exists of the calls before they run: the scraper is constructed,
\* nothing of a call exists yet.
InitLocals ==
    /\ queue_size \in 1..MaxQueueSize
    /\ mode \in [UNION {Enqueueable(itr[c]) : c \in CallIds} -> Modes]
    /\ called = {}
    /\ idx = [c \in CallIds |-> 1]
    /\ items = [q \in QueueRefs |-> <<>>]
    /\ unfinished_tasks = [q \in QueueRefs |-> 0]
    /\ maxsize = [q \in QueueRefs |-> 0]
    /\ workers = [c \in CallIds |-> 0]
    /\ tasks = [c \in CallIds |-> [p \in Pools |-> <<>>]]
    /\ responses = [l \in ListRefs |-> <<>>]
    /\ error = [c \in CallIds |-> "none"]
    /\ hist = [c \in CallIds |-> [i \in 1..Len(itr[c]) |->
                  [fetches |-> 0, ok |-> 0, dlq_puts |-> 0, dlq_reputs |-> 0]]]

\* The state as _async_multiget is entered, once.
InitCall ==
    /\ itr \in {OneCall(it, <<>>) : it \in SeqsUpTo(Items, MaxItems)}
    /\ pc = OneCall("call", "none")
    /\ InitLocals

\* The pipeline is explored for a list (len() defined), the largest connector
\* limit, and num_of_consumers None or a positive count.
Init ==
    /\ InitCall
    /\ has_len = [c \in CallIds |-> TRUE]
    /\ connector_limit = MaxLimit
    /\ num_of_consumers \in {OneCall(a, None) :
                                a \in {None} \cup {Int1(n) : n \in 1..MaxConsumers}}

\* Termination is explored for the default num_of_consumers (None: as many
\* consumers per pool as items, up to the connector limit) and for a single
\* consumer per pool, with the smallest and the largest main queue.
InitFair ==
    /\ Init
    /\ num_of_consumers[1] \in {None, Int1(1)}
    /\ queue_size \in {1, MaxQueueSize}

\* The worker counts are explored for every argument: lists and generators,
\* every connector limit from 0 (aiohttp: no limit), num_of_consumers None,
\* negative, zero or positive.
InitWorkers ==
    /\ InitCall
    /\ has_len \in {OneCall(b, TRUE) : b \in BOOLEAN}
    /\ connector_limit \in 0..MaxLimit
    /\ num_of_consumers \in {OneCall(a, None) :
                                a \in {None} \cup {Int1(n) : n \in -1..MaxConsumers}}

\* Two calls on one scraper, entered in any order and interleaved in any way:
\* each is given a short list and runs one consumer per pool; the main queues
\* hold one URL, so that the producers suspend as often as they can.
InitTwoCalls ==
    /\ itr \in [CallIds -> SeqsUpTo(Items, MaxItemsEach)]
    /\ pc = [c \in CallIds |-> "call"]
    /\ InitLocals
    /\ queue_size = 1
    /\ has_len = [c \in CallIds |-> TRUE]
    /\ connector_limit = MaxLimit
    /\ num_of_consumers = [c \in CallIds |-> Int1(1)]

\* ------------------------------------------------------------ _async_multiget
\* Lines 145-151: the queues, the response list and the two consumer pools.
NewQueuesUnbounded(c) ==
    [q \in QueueRefs |-> IF q[1] = c THEN 0 ELSE maxsize[q]]

\* Every queue the call makes is bounded by queue_size.
NewQueuesBounded(c) ==
    [q \in QueueRefs |-> IF q[1] = c THEN queue_size ELSE maxsize[q]]

\* Line 145: Queue(maxsize=self.queue_size) and Queue().
NewQueues(c) ==
    [q \in QueueRefs |->
        IF q = QueueRef(c, "queue") THEN queue_size
        ELSE IF q = QueueRef(c, "dlq") THEN 0
        ELSE maxsize[q]]

\* A Queue or a list as its constructor leaves it: every object call c makes
\* is empty, every other object is as it was.
Fresh(old, made, empty) == [r \in DOMAIN old |-> IF r \in made THEN empty ELSE old[r]]

Call(c) ==
    /\ pc[c] = "call"
    /\ maxsize' = NewQueues(c)
    /\ workers' = [workers EXCEPT ![c] =
                      WorkerCount(num_of_consumers[c], connector_limit, itr[c], has_len[c])]
    /\ LET n == workers'[c]
           queue == QueueRef(c, "queue")
           dlq == QueueRef(c, "dlq")
       IN tasks' = [tasks EXCEPT ![c] = [p \in Pools |->
                      IF p = "consumers"
                      THEN [k \in 1..MainPoolSize(n, connector_limit) |->
                               NewConsumer(queue, dlq, ListRef(c))]
                      ELSE [k \in 1..DlqPoolSize(n) |->
                               NewConsumer(dlq, dlq, ListRef(c))]]]
    /\ items' = Fresh(items, {QueueRef(c, nm) : nm \in QueueNames}, <<>>)
    /\ unfinished_tasks' = Fresh(unfinished_tasks, {QueueRef(c, nm) : nm \in QueueNames}, 0)
    /\ responses' = Fresh(responses, {ListRef(c)}, <<>>)
    /\ idx' = [idx EXCEPT ![c] = 1]
    /\ pc' = [pc EXCEPT ![c] = "produce"]
    /\ UNCHANGED <<inputs, called, error, hist>>

\* Queue.put: append the item and count it as unfinished.
Put(its, unf, q, work) ==
    [items |-> [its EXCEPT ![q] = Append(@, work)],
     unfinished |-> [unf EXCEPT ![q] = @ + 1]]

\* _producer, one turn of the loop (line 171) with a URL that builds: the put
\* suspends while the main queue is full.
ProducerPut(c) ==
    /\ pc[c] = "produce"
    /\ idx[c] <= Len(itr[c])
    /\ build_url_callback(itr[c][idx[c]]) # LookupError
    /\ ~Full(QueueRef(c, "queue"))
    /\ LET r == Put(items, unfinished_tasks, QueueRef(c, "queue"),
                    [call |-> c, id |-> idx[c], url |-> build_url_callback(itr[c][idx[c]])])
       IN /\ items' = r.items
          /\ unfinished_tasks' = r.unfinished
    /\ idx' = [idx EXCEPT ![c] = @ + 1]
    /\ UNCHANGED <<inputs, called, pc, maxsize, workers, tasks, responses, error, hist>>

\* A producer that swallows the lookup error and goes on with the next item.
ProducerSkip(c) ==
    /\ pc[c] = "produce"
    /\ idx[c] <= Len(itr[c])
    /\ build_url_callback(itr[c][idx[c]]) = LookupError
    /\ idx' = [idx EXCEPT ![c] = @ + 1]
    /\ UNCHANGED <<inputs, called, pc, items, unfinished_tasks, maxsize, workers, tasks,
                   responses, error, hist>>

\* _producer, line 171 with an item whose URL cannot be built: the lookup error
\* leaves _producer and _async_multiget (line 152 does not catch it).
ProducerRaise(c) ==
    /\ pc[c] = "produce"
    /\ idx[c] <= Len(itr[c])
    /\ build_url_callback(itr[c][idx[c]]) = LookupError
    /\ pc' = [pc EXCEPT ![c] = "raised"]
    /\ error' = [error EXCEPT ![c] = LookupError]
    /\ UNCHANGED <<inputs, called, idx, items, unfinished_tasks, maxsize, workers, tasks, responses, hist>>

\* _producer returns once the iterable is exhausted; line 153 is next.
ProducerDone(c) ==
    /\ pc[c] = "produce"
    /\ idx[c] > Len(itr[c])
    /\ pc' = [pc EXCEPT ![c] = "join_main"]
    /\ UNCHANGED <<inputs, called, idx, items, unfinished_tasks, maxsize, workers, tasks, responses, error, hist>>

\* An orchestrator that does not wait for the main queue.
JoinMainNoWait(c) ==
    /\ pc[c] = "join_main"
    /\ pc' = [pc EXCEPT ![c] = "join_dlq"]
    /\ UNCHANGED <<inputs, called, idx, items, unfinished_tasks, maxsize, workers, tasks, responses, error, hist>>

\* Line 153: queue.join() completes when the main queue has no unfinished task.
JoinMain(c) ==
    /\ pc[c] = "join_main"
    /\ unfinished_tasks[QueueRef(c, "queue")] = 0
    /\ pc' = [pc EXCEPT ![c] = "join_dlq"]
    /\ UNCHANGED <<inputs, called, idx, items, unfinished_tasks, maxsize, workers, tasks, responses, error, hist>>

\* An orchestrator that does not wait for the dlq.
JoinDlqNoWait(c) ==
    /\ pc[c] = "join_dlq"
    /\ pc' = [pc EXCEPT ![c] = "cancel"]
    /\ UNCHANGED <<inputs, called, idx, items, unfinished_tasks, maxsize, workers, tasks, responses, error, hist>>

\* Line 154: dlq.join().
JoinDlq(c) ==
    /\ pc[c] = "join_dlq"
    /\ unfinished_tasks[QueueRef(c, "dlq")] = 0
    /\ pc' = [pc EXCEPT ![c] = "cancel"]
    /\ UNCHANGED <<inputs, called, idx, items, unfinished_tasks, maxsize, workers, tasks, responses, error, hist>>

\* Task.cancel(): a task that has ended already stays as it ended.
Cancel(t) == IF t.at = "failed" THEN t ELSE [t EXCEPT !.at = "cancelled"]

\* An orchestrator that cancels the main-queue consumers only.
CancelMainPoolOnly(c) ==
    /\ pc[c] = "cancel"
    /\ tasks' = [tasks EXCEPT ![c] = [p \in Pools |->
                    [k \in DOMAIN tasks[c][p] |->
                        IF p = "consumers" THEN Cancel(tasks[c][p][k]) ELSE tasks[c][p][k]]]]
    /\ pc' = [pc EXCEPT ![c] = "done"]
    /\ UNCHANGED <<inputs, called, idx, items, unfinished_tasks, maxsize, workers, responses, error, hist>>

\* Lines 156-160: cancel every consumer of both pools and return responses.
CancelAndReturn(c) ==
    /\ pc[c] = "cancel"
    /\ tasks' = [tasks EXCEPT ![c] = [p \in Pools |->
                    [k \in DOMAIN tasks[c][p] |-> Cancel(tasks[c][p][k])]]]
    /\ pc' = [pc EXCEPT ![c] = "done"]
    /\ UNCHANGED <<inputs, called, idx, items, unfinished_tasks, maxsize, workers, responses, error, hist>>

\* ------------------------------------------------------------------ _consumer
\* Queue.task_done.
TaskDone(unf, q) == [unf EXCEPT ![q] = @ - 1]

SetTask(c, p, k, t) == [tasks EXCEPT ![c][p][k] = t]

Note(w, field) == [hist EXCEPT ![w.call][w.id][field] = Inc(@)]

\* A consumer task can run: it was started and has neither ended nor been
\* cancelled.
Running(c, p, k) ==
    /\ k \in DOMAIN tasks[c][p]
    /\ tasks[c][p][k].at \notin {"cancelled", "failed"}

\* Queue.get wakes the waiting getters first come, first served.  The tasks of
\* one pool run the same code on the same queues, so the waiting task of the
\* lowest index stands for whichever of them waited longest.
NextGetter(c, p, k) ==
    /\ tasks[c][p][k].at = "get"
    /\ \A j \in 1..(k - 1) : tasks[c][p][j].at # "get"

\* Lines 176-177: main_queue.get() hands over the head of the queue and the
\* task calls self._get(url), where it waits for the transport's answer.
ConsumerGet(c, p, k) ==
    /\ Running(c, p, k)
    /\ NextGetter(c, p, k)
    /\ LET t == tasks[c][p][k]
       IN /\ t.at = "get"
          /\ items[t.main_queue] # <<>>
          /\ LET w == Head(items[t.main_queue])
             IN /\ items' = [items EXCEPT ![t.main_queue] = Tail(@)]
                /\ tasks' = SetTask(c, p, k, [t EXCEPT !.at = "fetch", !.work = w,
                                                       !.res = Transport(w.url)])
                /\ called' = called \cup {w.url}
                /\ hist' = Note(w, "fetches")
    /\ UNCHANGED <<inputs, pc, idx, unfinished_tasks, maxsize, workers, responses, error>>

\* A response list that keeps one copy of each body.
OnResponseNoDuplicates(t) ==
    [responses |-> IF \E j \in DOMAIN responses[t.responses] :
                        responses[t.responses][j] = Body(t.work.url)
                   THEN responses
                   ELSE [responses EXCEPT ![t.responses] = Append(@, Body(t.work.url))],
     unfinished |-> [unfinished_tasks EXCEPT ![t.main_queue] = @ - 1]]

\* A consumer that marks the item done twice (in the try block and again in a
\* clean-up).
OnResponseDoneTwice(t) ==
    [responses |-> [responses EXCEPT ![t.responses] = Append(@, Body(t.work.url))],
     unfinished |-> [unfinished_tasks EXCEPT ![t.main_queue] = @ - 2]]

\* Lines 177-179: the body arrives; it is appended and the item is marked done.
OnResponse(t) ==
    [responses |-> [responses EXCEPT ![t.responses] = Append(@, Body(t.work.url))],
     unfinished |-> TaskDone(unfinished_tasks, t.main_queue)]

ConsumerResponse(c, p, k) ==
    /\ Running(c, p, k)
    /\ LET t == tasks[c][p][k]
       IN /\ t.at = "fetch"
          /\ t.res = "ok"
          /\ responses' = OnResponse(t).responses
          /\ unfinished_tasks' = OnResponse(t).unfinished
          /\ tasks' = SetTask(c, p, k, [t EXCEPT !.at = "get", !.work = NoWork, !.res = "none"])
          /\ hist' = Note(t.work, "ok")
    /\ UNCHANGED <<inputs, called, pc, idx, items, maxsize, workers, error>>

\* A handler that puts the URL on the dlq twice.
OnTimeoutPutTwice(t) ==
    LET r == Put(items, unfinished_tasks, t.dlq, t.work)
        r2 == Put(r.items, r.unfinished, t.dlq, t.work)
    IN [items |-> r2.items, unfinished |-> TaskDone(r2.unfinished, t.main_queue)]

\* A handler that gives the URL up at once.
OnTimeoutDrop(t) ==
    [items |-> items, unfinished |-> TaskDone(unfinished_tasks, t.main_queue)]

\* Lines 180-183: TimeoutError; the URL is put on the task's dlq and the item
\* is marked done on the queue it came from.
OnTimeout(t) ==
    LET r == Put(items, unfinished_tasks, t.dlq, t.work)
    IN [items |-> r.items, unfinished |-> TaskDone(r.unfinished, t.main_queue)]

\* Line 182 suspends in dlq.put while the task's dlq is full.
ConsumerTimeout(c, p, k) ==
    /\ Running(c, p, k)
    /\ LET t == tasks[c][p][k]
       IN /\ t.at = "fetch"
          /\ t.res = "timeout"
          /\ ~Full(t.dlq)
          /\ items' = OnTimeout(t).items
          /\ unfinished_tasks' = OnTimeout(t).unfinished
          /\ tasks' = SetTask(c, p, k, [t EXCEPT !.at = "get", !.work = NoWork, !.res = "none"])
          /\ hist' = IF t.main_queue = t.dlq
                     THEN [Note(t.work, "dlq_puts") EXCEPT
                              ![t.work.call][t.work.id].dlq_reputs = Inc(@)]
                     ELSE Note(t.work, "dlq_puts")
    /\ UNCHANGED <<inputs, called, pc, idx, maxsize, workers, responses, error>>

\* A handler that treats every exception as a timeout: the URL goes to the dlq.
OnErrorToDlq(t) ==
    LET r == Put(items, unfinished_tasks, t.dlq, t.work)
    IN [items |-> r.items, unfinished |-> TaskDone(r.unfinished, t.main_queue),
        task |-> [t EXCEPT !.at = "get", !.work = NoWork, !.res = "none"]]

\* A handler that marks the item done in a clean-up before the exception
\* leaves the task.
OnErrorTaskDone(t) ==
    [items |-> items, unfinished |-> TaskDone(unfinished_tasks, t.main_queue),
     task |-> [t EXCEPT !.at = "failed"]]

\* Lines 177 and 180: an exception of self._get that is not TimeoutError is
\* caught by nothing; it leaves _consumer and ends the task, which keeps it.
\* Neither line 179 nor lines 182-183 run.
OnError(t) ==
    [items |-> items, unfinished |-> unfinished_tasks,
     task |-> [t EXCEPT !.at = "failed"]]

ConsumerFail(c, p, k) ==
    /\ Running(c, p, k)
    /\ LET t == tasks[c][p][k]
       IN /\ t.at = "fetch"
          /\ t.res = "error"
          /\ items' = OnError(t).items
          /\ unfinished_tasks' = OnError(t).unfinished
          /\ tasks' = SetTask(c, p, k, OnError(t).task)
    /\ UNCHANGED <<inputs, called, pc, idx, maxsize, workers, responses, error, hist>>

Consumer(c, p, k) ==
    \/ ConsumerGet(c, p, k)
    \/ ConsumerResponse(c, p, k)
    \/ ConsumerTimeout(c, p, k)
    \/ ConsumerFail(c, p, k)

Orchestrator(c) ==
    \/ Call(c)
    \/ ProducerPut(c)
    \/ ProducerRaise(c)
    \/ ProducerDone(c)
    \/ JoinMain(c)
    \/ JoinDlq(c)
    \/ CancelAndReturn(c)

PoolBound == IF MaxLimit > MaxConsumers THEN MaxLimit ELSE MaxConsumers

\* A step of call c: of its coroutine or of one of its consumer tasks.
CallStep(c) ==
    \/ Orchestrator(c)
    \/ \E p \in Pools : \E k \in 1..PoolBound : Consumer(c, p, k)

Next == \E c \in CallIds : CallStep(c)

Spec == Init /\ [][Next]_vars

\* The event loop runs every task that is ready: no coroutine that can go on
\* is left waiting for ever.
Fairness(c) ==
    /\ WF_vars(Orchestrator(c))
    /\ \A p \in Pools : \A k \in 1..PoolBound : WF_vars(Consumer(c, p, k))

\* One call, every task of it run fairly.
FairSpec == InitFair /\ [][Next]_vars /\ Fairness(1)

\* The event loop runs the call's coroutine and its main-queue consumers; the
\* dlq consumers may be left waiting.
MainFairness(c) ==
    /\ WF_vars(Orchestrator(c))
    /\ \A k \in 1..PoolBound : WF_vars(Consumer(c, "consumers", k))

MainFairSpec == InitFair /\ [][Next]_vars /\ MainFairness(1)

\* Lines 145-151 alone, over every combination of arguments.
WorkersSpec == InitWorkers /\ [][\E c \in CallIds : Call(c)]_vars

\* Two calls interleaved on one scraper.
TwoCallsSpec == InitTwoCalls /\ [][Next]_vars

\* ------------------------------------------------------------------- claims
CountIn(seq, x) == Cardinality({j \in DOMAIN seq : seq[j] = x})

\* The bodies the transport returns for build_url_callback(item), item by item.
ExpectedBodies(c) == [i \in DOMAIN itr[c] |-> Body(build_url_callback(itr[c][i]))]

Buildable(c, i) == build_url_callback(itr[c][i]) # LookupError
NoLookupError(c) == \A i \in DOMAIN itr[c] : Buildable(c, i)
UrlOf(c, i) == build_url_callback(itr[c][i])

\* No fetch of this call has timed out.
NoTimeoutYet(c) == \A i \in DOMAIN itr[c] : hist[c][i].dlq_puts = 0

\* The list the call returns (line 160).
Returned(c) == responses[ListRef(c)]

\* The call has got past lines 145-151.
Entered(c) == pc[c] \notin {"none", "call"}

AllTasks == {<<c, p, k>> : c \in CallIds, p \in Pools, k \in 1..PoolBound}
Started == {x \in AllTasks : x[3] \in DOMAIN tasks[x[1]][x[2]]}
TaskAt(x) == tasks[x[1]][x[2]][x[3]]
Holds(c, i) == \E x \in Started : TaskAt(x).work.call = c /\ TaskAt(x).work.id = i
Queued(q, c, i) == \E j \in DOMAIN items[q] : items[q][j].call = c /\ items[q][j].id = i

\* C1: when the call has returned and no fetch timed out, the returned list is
\* a permutation of the bodies of build_url_callback(item) over all items, one
\* body per input item (duplicates included), so it is as long as the input.
C1_ResultIsPermutation ==
    \A c \in CallIds :
        (pc[c] = "done" /\ NoTimeoutYet(c)) =>
            /\ Len(Returned(c)) = Len(itr[c])
            /\ \A i \in DOMAIN itr[c] :
                  CountIn(Returned(c), ExpectedBodies(c)[i])
                      = CountIn(ExpectedBodies(c), ExpectedBodies(c)[i])
            /\ \A j \in DOMAIN Returned(c) : CountIn(ExpectedBodies(c), Returned(c)[j]) > 0

\* A call that returned two bodies of the same URL, given twice, without a timeout.
C1_Witness ==
    /\ pc[1] = "done"
    /\ NoTimeoutYet(1)
    /\ Len(itr[1]) = 2
    /\ itr[1][1] = itr[1][2]
    /\ Len(Returned(1)) = 2

\* C3: every work item is put on the dead-letter queue at most once, and never
\* by a consumer that took it from the dead-letter queue.
C3_DlqAtMostOnce ==
    \A c \in CallIds : \A i \in DOMAIN itr[c] :
        hist[c][i].dlq_puts <= 1 /\ hist[c][i].dlq_reputs = 0

\* C6: in every state the response list holds at most one body per input item,
\* so it is never longer than the input.
C6_AtMostOneBodyPerItem ==
    \A c \in CallIds :
        /\ Len(Returned(c)) <= Len(itr[c])
        /\ \A i \in DOMAIN itr[c] : hist[c][i].ok <= 1
        /\ \A u \in Urls : CountIn(Returned(c), Body(u))
                             <= Cardinality({i \in DOMAIN itr[c] : Buildable(c, i) /\ UrlOf(c, i) = u})
        /\ \A j \in DOMAIN Returned(c) : \E u \in Urls : Returned(c)[j] = Body(u)

\* A returned call in which a fetch timed out, was retried, and every item
\* still has its body.
C6_Witness ==
    /\ pc[1] = "done"
    /\ Len(itr[1]) >= 2
    /\ Len(Returned(1)) = Len(itr[1])
    /\ \E i \in DOMAIN itr[1] : hist[1][i].dlq_puts >= 1 /\ hist[1][i].ok = 1

\* C7: the main queue never holds more than queue_size URLs.
C7_MainQueueBounded ==
    \A c \in CallIds : Len(items[QueueRef(c, "queue")]) <= queue_size

\* The producer suspended in put: the main queue is full and an item is left.
C7_Witness ==
    /\ pc[1] = "produce"
    /\ idx[1] <= Len(itr[1])
    /\ Buildable(1, idx[1])
    /\ Len(items[QueueRef(1, "queue")]) = queue_size
    /\ ~ENABLED ProducerPut(1)

\* C8: an item whose URL cannot be built makes the lookup error leave
\* _async_multiget (the call never gets to its joins or its return), and that
\* item is never on a queue and never fetched.
C8_LookupErrorPropagates ==
    \A c \in CallIds :
        /\ (pc[c] = "raised") <=> (error[c] = LookupError)
        /\ pc[c] = "raised" => (idx[c] \in DOMAIN itr[c] /\ ~Buildable(c, idx[c]))
        /\ pc[c] \in {"join_main", "join_dlq", "cancel", "done"} => NoLookupError(c)
        /\ \A i \in DOMAIN itr[c] :
              ~Buildable(c, i) =>
                  /\ hist[c][i].fetches = 0
                  /\ ~Holds(c, i)
                  /\ \A q \in QueueRefs : ~Queued(q, c, i)
                  /\ idx[c] <= i

\* The error left the call at the second item, after the first was enqueued
\* and fetched.
C8_Witness ==
    /\ pc[1] = "raised"
    /\ error[1] = LookupError
    /\ idx[1] = 2
    /\ hist[1][1].fetches >= 1

\* The URLs of this input that the transport times out on every call.
AlwaysTimesOut(u) == mode[u] = "timeout_always"
BuiltBy(c, u) == {i \in DOMAIN itr[c] : Buildable(c, i) /\ UrlOf(c, i) = u}

\* Every fetch of the call is answered or times out: the transport fails none
\* of its URLs with another error.
NoTransportError(c) == \A i \in DOMAIN itr[c] : Buildable(c, i) => mode[UrlOf(c, i)] # "error"

\* C2: with every URL of the input buildable and every fetch either answered
\* or timed out (also on every attempt), the call eventually returns.
C2_EventuallyReturns ==
    (pc[1] = "call" /\ NoLookupError(1) /\ NoTransportError(1)) ~> (pc[1] = "done")

\* C4: when the transport times out on every call for one URL Y of the input
\* and answers every other URL at once, the call returns a list without Y's
\* body and one shorter than the input.
C4_Pre ==
    /\ pc[1] = "call"
    /\ NoLookupError(1)
    /\ \E y \in DOMAIN mode :
          /\ AlwaysTimesOut(y)
          /\ Cardinality(BuiltBy(1, y)) = 1
          /\ \A u \in DOMAIN mode \ {y} : mode[u] = "ok"

C4_PermanentFailureDropped ==
    C4_Pre ~> (/\ pc[1] = "done"
               /\ Len(Returned(1)) = Len(itr[1]) - 1
               /\ \A y \in DOMAIN mode : AlwaysTimesOut(y) => CountIn(Returned(1), Body(y)) = 0)

\* C5: when the transport times out on the first call for a URL X of the
\* input and answers the next one (and no URL of the input times out for
\* ever or fails with another error), the call returns, and the list holds X's
\* body once for the one item that builds X: the item was put on the DLQ once,
\* fetched with success once.
C5_Pre ==
    /\ pc[1] = "call"
    /\ NoLookupError(1)
    /\ NoTransportError(1)
    /\ \A i \in DOMAIN itr[1] : ~AlwaysTimesOut(UrlOf(1, i))
    /\ \E i \in DOMAIN itr[1] : mode[UrlOf(1, i)] = "timeout_first"

C5_Post ==
    /\ pc[1] = "done"
    /\ \A i \in DOMAIN itr[1] :
          /\ hist[1][i].ok = 1
          /\ mode[UrlOf(1, i)] = "timeout_first" =>
                /\ CountIn(Returned(1), Body(UrlOf(1, i))) = Cardinality(BuiltBy(1, UrlOf(1, i)))
                /\ \E j \in BuiltBy(1, UrlOf(1, i)) : hist[1][j].dlq_puts = 1
                /\ \A j \in BuiltBy(1, UrlOf(1, i)) : hist[1][j].dlq_puts <= 1

C5_RetriedOnce == C5_Pre ~> C5_Post

\* A returned call whose only item of URL X timed out once, went through the
\* DLQ once and has its body in the list once.
C5_Witness ==
    /\ pc[1] = "done"
    /\ \E i \in DOMAIN itr[1] :
          /\ mode[UrlOf(1, i)] = "timeout_first"
          /\ BuiltBy(1, UrlOf(1, i)) = {i}
          /\ hist[1][i].dlq_puts = 1
          /\ hist[1][i].fetches = 2
          /\ CountIn(Returned(1), Body(UrlOf(1, i))) = 1

\* C9: the call spawns as many main-queue consumers as DLQ consumers, whatever
\* num_of_consumers, the connector limit and the input are.
C9_SamePoolSizes ==
    \A c \in CallIds :
        Entered(c) => Len(tasks[c]["consumers"]) = Len(tasks[c]["dlq_consumers"])

\* len(itr), or the sentinel when the iterable has no length.
EstimatedLen(c) == IF has_len[c] THEN Len(itr[c]) ELSE ItrLenSentinel

NeverTimesOut == \A u \in DOMAIN mode : mode[u] \notin {"timeout_first", "timeout_always"}

BagOfBodies(seq) == [u \in Urls |-> CountIn(seq, Body(u))]

InFlight(q) == {x \in Started : TaskAt(x).main_queue = q /\ TaskAt(x).work # NoWork}

\* Item i of call c waits on q or is held by a consumer started on q.
PendingOn(q, c, i) ==
    \/ Queued(q, c, i)
    \/ \E x \in InFlight(q) : TaskAt(x).work.call = c /\ TaskAt(x).work.id = i

\* C12: once the main-queue join has completed (the call awaits the DLQ join or
\* is past it), the main queue is empty with no unfinished task and no fetch of
\* a main-queue consumer in flight, every item has been fetched at least once,
\* and every item without a body yet is pending on the DLQ and counted in its
\* unfinished tasks; so when the DLQ join has completed every item has its
\* body, and an item whose first fetch timed out was fetched again.
C12_DlqJoinAfterMainJoin ==
    \A c \in CallIds :
        /\ pc[c] \in {"join_dlq", "cancel", "done"} =>
              /\ items[QueueRef(c, "queue")] = <<>>
              /\ unfinished_tasks[QueueRef(c, "queue")] = 0
              /\ InFlight(QueueRef(c, "queue")) = {}
              /\ \A i \in DOMAIN itr[c] :
                    /\ hist[c][i].fetches >= 1
                    /\ hist[c][i].ok = 0 =>
                          /\ hist[c][i].dlq_puts >= 1
                          /\ PendingOn(QueueRef(c, "dlq"), c, i)
                          /\ unfinished_tasks[QueueRef(c, "dlq")] >= 1
        /\ pc[c] \in {"cancel", "done"} =>
              \A i \in DOMAIN itr[c] :
                  /\ hist[c][i].ok = 1
                  /\ hist[c][i].dlq_puts >= 1 => hist[c][i].fetches >= 2

\* The call waits in the DLQ join for an item whose first fetch timed out and
\* that has not been fetched again yet.
C12_Witness ==
    /\ pc[1] = "join_dlq"
    /\ \E i \in DOMAIN itr[1] :
          /\ hist[1][i].fetches = 1
          /\ hist[1][i].dlq_puts = 1
          /\ hist[1][i].ok = 0
          /\ Queued(QueueRef(1, "dlq"), 1, i)
    /\ ~ENABLED JoinDlq(1)

TasksOf(c) == {x \in Started : x[1] = c}

\* C13: no consumer task of a call is cancelled before the call has got past
\* both joins, every consumer task of both pools is cancelled when the call
\* has returned, and until then every consumer task is in its loop (waiting in
\* get or in a fetch): none has ended on its own.
C13_CancelledAfterBothJoins ==
    \A c \in CallIds :
        /\ (\E x \in TasksOf(c) : TaskAt(x).at = "cancelled") => pc[c] = "done"
        /\ pc[c] = "done" => \A x \in TasksOf(c) : TaskAt(x).at = "cancelled"
        /\ pc[c] # "done" => \A x \in TasksOf(c) : TaskAt(x).at \in {"get", "fetch"}

HeldNow(c, i) == IF Holds(c, i) THEN 1 ELSE 0

\* C14: on every queue the unfinished count is the number of items waiting on
\* it plus the number of items its consumers hold (task_done has run exactly
\* once for every item taken whose fetch was answered or timed out, and never
\* without a get before it), so the count is 0 only when nothing put on the
\* queue waits or is being fetched; and each fetch of an item that has come
\* to an outcome was either answered or sent to the DLQ, once.
C14_TaskDoneOncePerGet ==
    /\ \A q \in QueueRefs :
          /\ unfinished_tasks[q] = Len(items[q]) + Cardinality(InFlight(q))
          /\ unfinished_tasks[q] = 0 => (items[q] = <<>> /\ InFlight(q) = {})
    /\ \A c \in CallIds : \A i \in DOMAIN itr[c] :
          hist[c][i].fetches < CounterCap =>
              hist[c][i].ok + hist[c][i].dlq_puts + HeldNow(c, i) = hist[c][i].fetches

\* Two items, one answered and one timed out: both were marked done on the
\* main queue, whose count is 0, and the second is being fetched again by a
\* DLQ consumer, the DLQ's count being 1.
C14_Witness ==
    /\ pc[1] = "join_dlq"
    /\ Len(itr[1]) = 2
    /\ unfinished_tasks[QueueRef(1, "queue")] = 0
    /\ unfinished_tasks[QueueRef(1, "dlq")] = 1
    /\ \E i \in DOMAIN itr[1] : hist[1][i].ok = 1 /\ hist[1][i].dlq_puts = 0
    /\ \E i \in DOMAIN itr[1] : hist[1][i].ok = 0 /\ hist[1][i].dlq_puts = 1 /\ Holds(1, i)

\* A main-queue consumer whose fetch timed out can go on at once.
TimeoutNeverSuspends ==
    \A x \in Started :
        (x[2] = "consumers" /\ TaskAt(x).at = "fetch" /\ TaskAt(x).res = "timeout")
            => ENABLED ConsumerTimeout(x[1], x[2], x[3])

MainJoinCompleted(c) == pc[c] \in {"join_dlq", "cancel", "done"}

\* C15: the DLQ is unbounded, so a main-queue consumer whose fetch timed out
\* never waits to put the URL on it; and with the call's coroutine and the
\* main-queue consumers running (the DLQ consumers may make no step at all),
\* whatever times out, the main queue is drained and its join completes.
C15_MainQueueDrains ==
    /\ [](TimeoutNeverSuspends /\ \A c \in CallIds : ~Full(QueueRef(c, "dlq")))
    /\ (pc[1] = "call" /\ NoLookupError(1) /\ NoTransportError(1)) ~> MainJoinCompleted(1)

\* The main-queue join has completed with every item timed out once and put
\* on the DLQ, more of them than the main queue can hold, and no DLQ consumer
\* has taken one.
C15_Witness ==
    /\ pc[1] = "join_dlq"
    /\ Len(itr[1]) = 2
    /\ queue_size = 1
    /\ Len(items[QueueRef(1, "dlq")]) = 2
    /\ \A i \in DOMAIN itr[1] : hist[1][i].fetches = 1 /\ hist[1][i].dlq_puts = 1

Failed == {x \in Started : TaskAt(x).at = "failed"}

\* The step a task takes out of a fetch that the transport failed with an
\* error other than a timeout.
ErrorStep(x) ==
    /\ TaskAt(x).at = "fetch"
    /\ TaskAt(x).res = "error"
    /\ tasks'[x[1]][x[2]][x[3]] # TaskAt(x)

\* A waiting consumer of a queue that holds items can take one.
GettersGoOn ==
    \A x \in Started :
        (TaskAt(x).at = "get" /\ items[TaskAt(x).main_queue] # <<>>)
            => \E y \in Started : /\ y[1] = x[1]
                                  /\ y[2] = x[2]
                                  /\ ENABLED ConsumerGet(y[1], y[2], y[3])

\* C16: a fetch that fails with an error other than a timeout ends the task
\* that made it and changes nothing else: no body is appended, no queue (the
\* DLQ included) gets or loses an item, no unfinished count moves, the call's
\* coroutine stays where it is with no error, and every other task is as it
\* was; afterwards the call has still seen no error of the transport, and the
\* consumers that are left still take the items that wait.
C16_ErrorEndsOnlyItsTask ==
    /\ [][\A x \in Started :
             ErrorStep(x) =>
                 /\ tasks'[x[1]][x[2]][x[3]].at = "failed"
                 /\ responses' = responses
                 /\ items' = items
                 /\ unfinished_tasks' = unfinished_tasks
                 /\ hist' = hist
                 /\ pc' = pc
                 /\ error' = error
                 /\ \A y \in Started \ {x} : tasks'[y[1]][y[2]][y[3]] = TaskAt(y)]_vars
    /\ [](/\ \A c \in CallIds : error[c] \in {"none", LookupError}
          /\ GettersGoOn)

\* One consumer was ended by a failed fetch; the call has seen no error, the
\* other consumer has brought the body of the other item, and the failed URL
\* is on no queue and has no body.
C16_Witness ==
    /\ pc[1] = "join_main"
    /\ error[1] = "none"
    /\ Len(itr[1]) = 2
    /\ Len(Returned(1)) = 1
    /\ \E x \in Failed :
          /\ x[2] = "consumers"
          /\ \A q \in QueueRefs : items[q] = <<>>
          /\ CountIn(Returned(1), Body(TaskAt(x).work.url)) = 0
          /\ hist[1][TaskAt(x).work.id].dlq_puts = 0

\* C17: once a fetch has failed with an error other than a timeout, the item
\* the ended task held stays counted as unfinished on the queue it was taken
\* from, for ever (the task never runs again), so the call does not get past
\* that queue's join: it neither cancels a consumer nor returns, however many
\* consumers are left.
C17_ErrorBlocksReturn ==
    /\ [](\A x \in Failed :
             /\ TaskAt(x).work # NoWork
             /\ unfinished_tasks[TaskAt(x).main_queue] >= 1
             /\ pc[x[1]] \notin {"cancel", "done"}
             /\ TaskAt(x).main_queue = QueueRef(x[1], "queue") => ~MainJoinCompleted(x[1])
             /\ \A y \in TasksOf(x[1]) : TaskAt(y).at # "cancelled")
    /\ [][\A x \in Failed : tasks'[x[1]][x[2]][x[3]] = TaskAt(x)]_vars

\* The call waits in the main-queue join for ever: the only unfinished item
\* is the one a failed task held, another main-queue consumer and the DLQ
\* consumers wait for items, and nothing of the call can make a step.
C17_Witness ==
    /\ pc[1] = "join_main"
    /\ unfinished_tasks[QueueRef(1, "queue")] = 1
    /\ \A q \in QueueRefs : items[q] = <<>>
    /\ Cardinality(Failed) = 1
    /\ \E y \in TasksOf(1) : y[2] = "consumers" /\ TaskAt(y).at = "get"
    /\ \E y \in TasksOf(1) : y[2] = "dlq_consumers" /\ TaskAt(y).at = "get"
    /\ ~ENABLED CallStep(1)

QueuesDrained(c) ==
    \A nm \in QueueNames :
        /\ items[QueueRef(c, nm)] = <<>>
        /\ unfinished_tasks[QueueRef(c, nm)] = 0

\* C18: when the call is about to cancel its consumers both its queues are
\* empty with an unfinished count of 0 and every consumer of both pools waits
\* in get, holding nothing; when it has returned the tasks are cancelled with
\* nothing in their hands, every item has its body in the list, and no later
\* step changes the list.
C18_QuiescentAtCancel ==
    /\ [](\A c \in CallIds :
             /\ pc[c] = "cancel" =>
                   /\ QueuesDrained(c)
                   /\ \A x \in TasksOf(c) : TaskAt(x).at = "get" /\ TaskAt(x).work = NoWork
             /\ pc[c] = "done" =>
                   /\ QueuesDrained(c)
                   /\ \A x \in TasksOf(c) : TaskAt(x).at = "cancelled" /\ TaskAt(x).work = NoWork
             /\ pc[c] \in {"cancel", "done"} => Len(Returned(c)) = Len(itr[c]))
    /\ [][\A c \in CallIds : pc[c] = "done" => Returned(c)' = Returned(c)]_vars

\* The call is about to cancel two pools of two idle consumers after a run in
\* which a fetch timed out and was retried.
C18_Witness ==
    /\ pc[1] = "cancel"
    /\ Len(itr[1]) = 2
    /\ Len(Returned(1)) = 2
    /\ \E i \in DOMAIN itr[1] : hist[1][i].dlq_puts >= 1
    /\ Len(tasks[1]["consumers"]) = 2
    /\ Len(tasks[1]["dlq_consumers"]) = 2
    /\ \A x \in TasksOf(1) : TaskAt(x).at = "get"

\* The call has been left: by its return or by an exception.
Exited(c) == pc[c] \in {"done", "raised"}

\* C19: when the call has been left, by its return or by the lookup error of
\* build_url_callback, every consumer task it started has been cancelled (so
\* none of them fetches or appends any more).
C19_CancelledOnEveryExit ==
    \A c \in CallIds : Exited(c) => \A x \in TasksOf(c) : TaskAt(x).at = "cancelled"

QueuesOf(c) == {QueueRef(c, nm) : nm \in QueueNames}

\* What call c has made for itself.
LocalsOf(c) ==
    <<pc[c], idx[c], tasks[c], error[c], Returned(c),
      [nm \in QueueNames |-> <<items[QueueRef(c, nm)], unfinished_tasks[QueueRef(c, nm)],
                               maxsize[QueueRef(c, nm)]>>]>>

\* A step of call c: of its coroutine or of one of its tasks.
Moves(c) == pc'[c] # pc[c] \/ idx'[c] # idx[c] \/ tasks'[c] # tasks[c]

\* C20: of two calls interleaved on one scraper, the consumers of a call are
\* started on the queues and the list that call made, only items of the call
\* are on its queues or in its consumers' hands, and its list holds bodies of
\* its own items only, at most one per item; no step of one call (a join and
\* the cancellation included) changes the position, the queues, the tasks or
\* the list of the other.
C20_CallsAreSeparate ==
    /\ [](\A c \in CallIds :
             /\ \A x \in TasksOf(c) :
                   /\ TaskAt(x).main_queue \in QueuesOf(c)
                   /\ TaskAt(x).dlq \in QueuesOf(c)
                   /\ TaskAt(x).responses = ListRef(c)
                   /\ TaskAt(x).work # NoWork => TaskAt(x).work.call = c
             /\ \A q \in QueuesOf(c) : \A j \in DOMAIN items[q] : items[q][j].call = c
             /\ \A u \in Urls : CountIn(Returned(c), Body(u)) <= Cardinality(BuiltBy(c, u))
             /\ pc[c] = "done" => Len(Returned(c)) = Len(itr[c]))
    /\ [][\A c \in CallIds : \A d \in CallIds \ {c} :
             Moves(c) => LocalsOf(d)' = LocalsOf(d)]_vars

\* The first call has returned the body of its item and its tasks are
\* cancelled, while the second call, given another item, waits in its join
\* with a fetch of its own in flight.
C20_Witness ==
    /\ pc[1] = "done"
    /\ Len(itr[1]) = 1
    /\ Len(itr[2]) = 1
    /\ itr[1] # itr[2]
    /\ Returned(1) = <<Body(UrlOf(1, 1))>>
    /\ \A x \in TasksOf(1) : TaskAt(x).at = "cancelled"
    /\ pc[2] = "join_main"
    /\ Returned(2) = <<>>
    /\ \E x \in TasksOf(2) : TaskAt(x).at = "fetch" /\ TaskAt(x).work.call = 2

====
